---- MODULE Spec2Model ----
(***************************************************************************)
(* Tron light cycle game (src/game.py): the grid helpers, the A* search,   *)
(* the flood fill, the Cycle entity, the EnemyAgent decision loop and the  *)
(* TronGame main loop (events, handle_input, update).                      *)
(*                                                                         *)
(* The grid is scaled down from the source's 60 x 40.  COLS stays even, as *)
(* in the source, so that the two start columns are an even number of      *)
(* cells apart (40 in the source); the start columns keep the source's     *)
(* proportion (10 of 60 columns).  A game is followed for its first        *)
(* MaxFrame ticks.                                                         *)
(***************************************************************************)
EXTENDS Integers, Sequences, FiniteSets, TLC

\* ------------------------------------------------------------------
\* Bounds (the source plays on a 60 x 40 grid)
\* ------------------------------------------------------------------
HalfCols == 4
ROWS == 6

\* a game is followed for at most MaxFrame ticks
MaxFrame == 10

\* astar() is called on the cells less than Reach steps from the corner
\* << 0, 0 >>, with every set of at most Reach of them blocked
Reach == 3

\* the grid width, even as the source's 60
COLS == 2 * HalfCols

\* the start column offset: 10 when COLS = 60, as in reset()
StartOffset == COLS \div 6

\* ------------------------------------------------------------------
\* Directions
\* ------------------------------------------------------------------
UP == << 0, -1 >>
DOWN == << 0, 1 >>
LEFT == << -1, 0 >>
RIGHT == << 1, 0 >>
DIRS == << UP, DOWN, LEFT, RIGHT >>

opposite(d) == << -d[1], -d[2] >>

Abs(n) == IF n < 0 THEN -n ELSE n

\* Manhattan distance
heuristic(a, b) == Abs(a[1] - b[1]) + Abs(a[2] - b[2])

\* bounds test shared by astar, flood_fill_count, decide and update
in_bounds(pos) == 0 <= pos[1] /\ pos[1] < COLS /\ 0 <= pos[2] /\ pos[2] < ROWS

\* cell + delta
Step(c, d) == << c[1] + d[1], c[2] + d[2] >>

\* ------------------------------------------------------------------
\* A* search.  The heap holds tuples (f, g, node, path); heappop takes
\* the least tuple in Python's lexicographic tuple order.  None is
\* modelled as the empty sequence (a returned path is never empty).
\* ------------------------------------------------------------------
None == << >>

CellLess(a, b) == a[1] < b[1] \/ (a[1] = b[1] /\ a[2] < b[2])

\* Python list comparison of two cell lists
PathLess(p, q) ==
    \/ \E i \in 1..Len(p) :
          /\ i <= Len(q)
          /\ \A j \in 1..(i - 1) : p[j] = q[j]
          /\ p[i] # q[i]
          /\ CellLess(p[i], q[i])
    \/ /\ Len(p) < Len(q)
       /\ \A j \in 1..Len(p) : p[j] = q[j]

MinInt(S) == CHOOSE m \in S : \A n \in S : m <= n

\* heappop: the least heap entry in Python's tuple order, found field by
\* field: least f, then least g, then least node, then least path
heappop(open) ==
    LET fmin == MinInt({ e.f : e \in open })
        byF == { e \in open : e.f = fmin }
        gmin == MinInt({ e.g : e \in byF })
        byG == { e \in byF : e.g = gmin }
        nodes == { e.node : e \in byG }
        nmin == CHOOSE n \in nodes : \A m \in nodes : m = n \/ CellLess(n, m)
        byNode == { e \in byG : e.node = nmin }
    IN CHOOSE e \in byNode : \A o \in byNode : o = e \/ PathLess(e.path, o.path)

\* variant: a neighbour is pushed without the test that it is not blocked
RECURSIVE AStarLoop_blocked_untested(_, _, _, _)
AStarLoop_blocked_untested(open, closed, goal, blocked) ==
    IF open = {} THEN None
    ELSE LET e == heappop(open)
         IN IF e.node = goal THEN e.path
            ELSE LET closed2 == closed \cup {e.node}
                     rest == { o \in open : o.node # e.node }
                     nbrs == { n \in { Step(e.node, DIRS[i]) : i \in 1..4 } :
                                 /\ n \notin closed2
                                 /\ in_bounds(n) }
                     pushed == { [f |-> e.g + 1 + heuristic(n, goal),
                                  g |-> e.g + 1,
                                  node |-> n,
                                  path |-> Append(e.path, n)] : n \in nbrs }
                 IN AStarLoop_blocked_untested(rest \cup pushed, closed2, goal, blocked)

\* the while loop of astar.  The code pops and skips an entry whose node is
\* already closed; here the entries of a node leave the heap when the node
\* is closed, which leaves the order of all other pops unchanged.
RECURSIVE AStarLoop(_, _, _, _)
AStarLoop(open, closed, goal, blocked) ==
    IF open = {} THEN None
    ELSE LET e == heappop(open)
         IN IF e.node = goal THEN e.path
            ELSE LET closed2 == closed \cup {e.node}
                     rest == { o \in open : o.node # e.node }
                     nbrs == { n \in { Step(e.node, DIRS[i]) : i \in 1..4 } :
                                 /\ n \notin closed2
                                 /\ in_bounds(n)
                                 /\ n \notin blocked }
                     pushed == { [f |-> e.g + 1 + heuristic(n, goal),
                                  g |-> e.g + 1,
                                  node |-> n,
                                  path |-> Append(e.path, n)] : n \in nbrs }
                 IN AStarLoop(rest \cup pushed, closed2, goal, blocked)

astar(start, goal, blocked) ==
    AStarLoop({ [f |-> heuristic(start, goal), g |-> 0,
                 node |-> start, path |-> << start >>] },
              {}, goal, blocked)

\* ------------------------------------------------------------------
\* Flood fill: queue.pop() takes the last element
\* ------------------------------------------------------------------
RECURSIVE FloodNeighbors(_, _, _, _, _)
FloodNeighbors(visited, queue, c, i, blocked) ==
    IF i > 4 THEN [visited |-> visited, queue |-> queue]
    ELSE LET n == Step(c, DIRS[i])
         IN IF n \notin visited /\ n \notin blocked /\ in_bounds(n)
            THEN FloodNeighbors(visited \cup {n}, Append(queue, n), c, i + 1, blocked)
            ELSE FloodNeighbors(visited, queue, c, i + 1, blocked)

RECURSIVE FloodLoop(_, _, _)
FloodLoop(visited, queue, blocked) ==
    IF queue = << >> THEN Cardinality(visited)
    ELSE LET c == queue[Len(queue)]
             r == FloodNeighbors(visited, SubSeq(queue, 1, Len(queue) - 1),
                                 c, 1, blocked)
         IN FloodLoop(r.visited, r.queue, blocked)

flood_fill_count(start, blocked) == FloodLoop({start}, << start >>, blocked)

\* ------------------------------------------------------------------
\* Cycle (player / enemy)
\* ------------------------------------------------------------------
\* the dataclass constructor followed by __post_init__
Cycle(pos, direction) ==
    [pos |-> pos, direction |-> direction, trail |-> {} \cup {pos}, alive |-> TRUE]

next_pos(c, d) == Step(c.pos, d)

\* variant: the new cell is not put into the trail
move_no_trail(c) ==
    LET nxt == next_pos(c, c.direction)
    IN [c EXCEPT !.pos = nxt]

\* variant: the trail is replaced by the new cell
move_trail_reset(c) ==
    LET nxt == next_pos(c, c.direction)
    IN [c EXCEPT !.pos = nxt, !.trail = {nxt}]

move(c) ==
    LET nxt == next_pos(c, c.direction)
    IN [c EXCEPT !.pos = nxt, !.trail = @ \cup {nxt}]

\* ------------------------------------------------------------------
\* EnemyAgent
\* ------------------------------------------------------------------
REPLAN_INTERVAL == 3

EnemyAgent == [plan |-> << >>, ticks |-> 0]

\* variant: the player's current cell is left out of the blocked set
_blocked_without_player_pos(en, pl) == en.trail \cup (pl.trail \ {pl.pos})

_blocked(en, pl) == en.trail \cup pl.trail

RECURSIVE PredictLoop(_, _, _)
PredictLoop(p, d, steps) ==
    IF steps = 0 THEN p
    ELSE LET n == Step(p, d)
         IN PredictLoop(IF in_bounds(n) THEN n ELSE p, d, steps - 1)

_predict_player(pl, steps) == PredictLoop(pl.pos, pl.direction, steps)

\* variant: a direction with an equal count replaces the best one
RECURSIVE SurvivalLoop_last_tie(_, _, _, _, _)
SurvivalLoop_last_tie(i, best_dir, best_space, en, blocked) ==
    IF i > 4 THEN best_dir
    ELSE LET d == DIRS[i]
             n == next_pos(en, d)
         IN IF d = opposite(en.direction) \/ ~in_bounds(n) \/ n \in blocked
            THEN SurvivalLoop_last_tie(i + 1, best_dir, best_space, en, blocked)
            ELSE LET space == flood_fill_count(n, blocked \cup {n})
                 IN IF space >= best_space
                    THEN SurvivalLoop_last_tie(i + 1, d, space, en, blocked)
                    ELSE SurvivalLoop_last_tie(i + 1, best_dir, best_space, en, blocked)

RECURSIVE SurvivalLoop(_, _, _, _, _)
SurvivalLoop(i, best_dir, best_space, en, blocked) ==
    IF i > 4 THEN best_dir
    ELSE LET d == DIRS[i]
             n == next_pos(en, d)
         IN IF d = opposite(en.direction) \/ ~in_bounds(n) \/ n \in blocked
            THEN SurvivalLoop(i + 1, best_dir, best_space, en, blocked)
            ELSE LET space == flood_fill_count(n, blocked \cup {n})
                 IN IF space > best_space
                    THEN SurvivalLoop(i + 1, d, space, en, blocked)
                    ELSE SurvivalLoop(i + 1, best_dir, best_space, en, blocked)

_survival_direction(en, blocked) == SurvivalLoop(1, en.direction, -1, en, blocked)

\* _survival_direction(): the directions that pass the three tests of the
\* loop, and whether two of them have the greatest count
SurvivalMeasured(en, blocked) ==
    { d \in { DIRS[i] : i \in 1..4 } :
        /\ d # opposite(en.direction)
        /\ in_bounds(next_pos(en, d))
        /\ next_pos(en, d) \notin blocked }

SurvivalTied(en, blocked) ==
    LET space(d) == flood_fill_count(next_pos(en, d), blocked \cup {next_pos(en, d)})
    IN \E d1, d2 \in SurvivalMeasured(en, blocked) :
          /\ d1 # d2
          /\ space(d1) = space(d2)
          /\ \A d \in SurvivalMeasured(en, blocked) : space(d) <= space(d1)

\* variant: no re-plan on the interval, only when the plan is exhausted
Replan_exhausted_only(en, pl, ag, ticks, blocked) ==
    IF ag.plan = << >>
    THEN LET goal == _predict_player(pl, 5)
             path1 == astar(en.pos, goal, blocked)
             path == IF path1 = None THEN astar(en.pos, pl.pos, blocked) ELSE path1
         IN IF path # None /\ Len(path) > 1 THEN Tail(path) ELSE << >>
    ELSE ag.plan

\* variant: the interval is tested on the counter before its increment
ReplanDue_stale_counter(ticks, plan) ==
    (ticks - 1) % REPLAN_INTERVAL = 0 \/ plan = << >>

\* decide(): the condition of the re-plan block, on the incremented counter
ReplanDue(ticks, plan) == ticks % REPLAN_INTERVAL = 0 \/ plan = << >>

\* the re-plan block of decide(): the plan stored for this tick
Replan(en, pl, ag, ticks, blocked) ==
    IF ReplanDue(ticks, ag.plan)
    THEN LET goal == _predict_player(pl, 5)
             path1 == astar(en.pos, goal, blocked)
             path == IF path1 = None THEN astar(en.pos, pl.pos, blocked) ELSE path1
         IN IF path # None /\ Len(path) > 1 THEN Tail(path) ELSE << >>
    ELSE ag.plan

\* variant: the popped step is returned without the safety check
decide_unchecked(en, pl, ag) ==
    LET ticks == ag.ticks + 1
        blocked == _blocked(en, pl)
        plan == Replan(en, pl, ag, ticks, blocked)
    IN IF plan # << >>
       THEN LET nxt == Head(plan)
                chosen == << nxt[1] - en.pos[1], nxt[2] - en.pos[2] >>
            IN [dir |-> chosen, agent |-> [plan |-> Tail(plan), ticks |-> ticks],
                unsafe |-> FALSE, fallback |-> FALSE]
       ELSE [dir |-> _survival_direction(en, blocked),
             agent |-> [plan |-> plan, ticks |-> ticks], unsafe |-> FALSE,
             fallback |-> TRUE]

\* decide(): the heading returned and the agent's state after the call;
\* unsafe records that the popped plan step failed the safety check,
\* fallback that the heading came from _survival_direction()
decide(en, pl, ag) ==
    LET ticks == ag.ticks + 1
        blocked == _blocked(en, pl)
        plan == Replan(en, pl, ag, ticks, blocked)
    IN IF plan # << >>
       THEN LET nxt == Head(plan)
                chosen == << nxt[1] - en.pos[1], nxt[2] - en.pos[2] >>
                n == next_pos(en, chosen)
                ag2 == [plan |-> Tail(plan), ticks |-> ticks]
            IN IF n \notin blocked /\ in_bounds(n)
               THEN [dir |-> chosen, agent |-> ag2, unsafe |-> FALSE,
                     fallback |-> FALSE]
               ELSE [dir |-> _survival_direction(en, blocked), agent |-> ag2,
                     unsafe |-> TRUE, fallback |-> TRUE]
       ELSE [dir |-> _survival_direction(en, blocked),
             agent |-> [plan |-> plan, ticks |-> ticks], unsafe |-> FALSE,
             fallback |-> TRUE]

\* ------------------------------------------------------------------
\* TronGame
\* ------------------------------------------------------------------
VARIABLES
    player,        \* Cycle
    enemy,         \* Cycle
    agent,         \* EnemyAgent: plan, ticks
    state,         \* "playing" | "win" | "lose" | "draw"
    score,
    frame,
    pc,            \* position in run(): "events" | "input" | "update" | "quit"
    prev_heading,  \* history: player.direction at the previous update() of
                   \* this game, << 0, 0 >> before the first
    resolved,      \* history: the last update() ran past its early return
    kept,          \* history: the last decide() of this game popped a step
                   \* that failed the safety check and kept a non-empty rest
    after_kept,    \* history: kept held when the last update() was entered
    trace,         \* history of the last decide() of this game: replanned (the
                   \* re-plan block ran), retried (its first search found no
                   \* path), fallback (the heading came from the survival
                   \* fallback), tied (two directions measured by that fallback
                   \* had the greatest count), run (calls of decide() since the
                   \* last re-plan, that one included)
    search         \* one call of astar(): its arguments and its result

vars == << player, enemy, agent, state, score, frame, pc, prev_heading,
           resolved, kept, after_kept, trace, search >>

Keys == {"UP", "DOWN", "LEFT", "RIGHT"}

\* the game-over values of self.state
Terminal == {"win", "lose", "draw"}

NoHeading == << 0, 0 >>

NoTrace == [replanned |-> FALSE, retried |-> FALSE, fallback |-> FALSE,
            tied |-> FALSE, run |-> 0]

\* no call of astar() outside decide()
NoSearch == [start |-> << 0, 0 >>, goal |-> << 0, 0 >>, blocked |-> {},
             called |-> FALSE, path |-> None]

\* reset(): the fields it assigns
ResetPlayer == Cycle(<< StartOffset, ROWS \div 2 >>, RIGHT)
ResetEnemy == Cycle(<< COLS - StartOffset, ROWS \div 2 >>, LEFT)
ResetScore(sc) == 0

\* variant: the agent is not re-created
reset_agent_kept ==
    /\ player' = ResetPlayer
    /\ enemy' = ResetEnemy
    /\ agent' = agent
    /\ state' = "playing"
    /\ score' = ResetScore(score)
    /\ frame' = 0
    /\ prev_heading' = NoHeading
    /\ kept' = FALSE
    /\ after_kept' = FALSE
    /\ trace' = NoTrace
    /\ UNCHANGED search

reset ==
    /\ player' = ResetPlayer
    /\ enemy' = ResetEnemy
    /\ agent' = EnemyAgent
    /\ state' = "playing"
    /\ score' = ResetScore(score)
    /\ frame' = 0
    /\ prev_heading' = NoHeading
    /\ kept' = FALSE
    /\ after_kept' = FALSE
    /\ trace' = NoTrace
    /\ UNCHANGED search

Init ==
    /\ player = ResetPlayer
    /\ enemy = ResetEnemy
    /\ agent = EnemyAgent
    /\ state = "playing"
    /\ score = 0
    /\ frame = 0
    /\ pc = "events"
    /\ prev_heading = NoHeading
    /\ resolved = FALSE
    /\ kept = FALSE
    /\ after_kept = FALSE
    /\ trace = NoTrace
    /\ search = NoSearch

\* variant: the LEFT branch lacks its no-reverse test
handle_input_left_unguarded(d, keys) ==
    IF "UP" \in keys /\ d # DOWN THEN UP
    ELSE IF "DOWN" \in keys /\ d # UP THEN DOWN
    ELSE IF "LEFT" \in keys THEN LEFT
    ELSE IF "RIGHT" \in keys /\ d # LEFT THEN RIGHT
    ELSE d

\* variant: no branch has a no-reverse test
handle_input_unguarded(d, keys) ==
    IF "UP" \in keys THEN UP
    ELSE IF "DOWN" \in keys THEN DOWN
    ELSE IF "LEFT" \in keys THEN LEFT
    ELSE IF "RIGHT" \in keys THEN RIGHT
    ELSE d

\* handle_input(): the heading after the call; keys is the set of pressed
\* keys, an arrow key and its WASD twin counted as one
handle_input(d, keys) ==
    IF "UP" \in keys /\ d # DOWN THEN UP
    ELSE IF "DOWN" \in keys /\ d # UP THEN DOWN
    ELSE IF "LEFT" \in keys /\ d # RIGHT THEN LEFT
    ELSE IF "RIGHT" \in keys /\ d # LEFT THEN RIGHT
    ELSE d

\* variant: update() without its early return
is_over_never(s) == FALSE

\* update(): the early return
is_over(s) == s # "playing"

\* variant: the next cell is tested against the bounds only
crash_bounds_only(nxt, blocked) == ~in_bounds(nxt)

\* update(): the crash test of one entity's next cell
crash(nxt, blocked) == (~in_bounds(nxt)) \/ (nxt \in blocked)

\* variant: head_on is not tested
resolve_no_head_on(p_crash, e_crash, head_on) ==
    IF p_crash /\ e_crash THEN "draw"
    ELSE IF p_crash THEN "lose"
    ELSE IF e_crash THEN "win"
    ELSE "playing"

\* variant: the player's crash is tested before the mutual crash
resolve_lose_first(p_crash, e_crash, head_on) ==
    IF p_crash \/ head_on THEN "lose"
    ELSE IF p_crash /\ e_crash THEN "draw"
    ELSE IF e_crash THEN "win"
    ELSE "playing"

\* variant: head_on is tested in the pursuer's branch
resolve_head_on_wins(p_crash, e_crash, head_on) ==
    IF p_crash /\ e_crash THEN "draw"
    ELSE IF p_crash THEN "lose"
    ELSE IF e_crash \/ head_on THEN "win"
    ELSE "playing"

\* variant: the chain lacks its e_crash branch
resolve_pursuer_crash_ignored(p_crash, e_crash, head_on) ==
    IF p_crash /\ e_crash THEN "draw"
    ELSE IF p_crash \/ head_on THEN "lose"
    ELSE "playing"

\* update(): the if / elif chain
resolve(p_crash, e_crash, head_on) ==
    IF p_crash /\ e_crash THEN "draw"
    ELSE IF p_crash \/ head_on THEN "lose"
    ELSE IF e_crash THEN "win"
    ELSE "playing"

\* the event loop of run(): no key event, or K_r
EventsNone ==
    /\ pc = "events"
    /\ pc' = "input"
    /\ UNCHANGED << player, enemy, agent, state, score, frame, prev_heading,
                    resolved, kept, after_kept, trace, search >>

EventsReset ==
    /\ pc = "events"
    /\ reset
    /\ pc' = "input"
    /\ UNCHANGED resolved

\* QUIT or K_ESCAPE: sys.exit()
EventsQuit ==
    /\ pc = "events"
    /\ pc' = "quit"
    /\ UNCHANGED << player, enemy, agent, state, score, frame, prev_heading,
                    resolved, kept, after_kept, trace, search >>

HandleInput(keys) ==
    /\ pc = "input"
    /\ player' = [player EXCEPT !.direction = handle_input(player.direction, keys)]
    /\ pc' = "update"
    /\ UNCHANGED << enemy, agent, state, score, frame, prev_heading,
                    resolved, kept, after_kept, trace, search >>

\* update(); dec is the one call of agent.decide()
Update ==
    /\ pc = "update"
    /\ is_over(state) \/ frame < MaxFrame
    /\ pc' = "events"
    /\ prev_heading' = player.direction
    /\ after_kept' = kept
    /\ UNCHANGED search
    /\ IF is_over(state)
       THEN /\ resolved' = FALSE
            /\ UNCHANGED << player, enemy, agent, state, score, frame, kept,
                            trace >>
       ELSE \E dec \in { decide(enemy, player, agent) } :
            \E en \in { [enemy EXCEPT !.direction = dec.dir] } :
            \E blocked \in { player.trail \cup en.trail } :
            \E p_nxt \in { next_pos(player, player.direction) } :
            \E e_nxt \in { next_pos(en, en.direction) } :
            \E outcome \in { resolve(crash(p_nxt, blocked), crash(e_nxt, blocked),
                                     p_nxt = e_nxt) } :
               /\ resolved' = TRUE
               /\ kept' = (dec.unsafe /\ dec.agent.plan # << >>)
               /\ \E due \in { ReplanDue(agent.ticks + 1, agent.plan) } :
                  trace' = [replanned |-> due,
                            retried |-> due /\ astar(enemy.pos, _predict_player(player, 5),
                                                     _blocked(enemy, player)) = None,
                            fallback |-> dec.fallback,
                            tied |-> dec.fallback
                                       /\ SurvivalTied(enemy, _blocked(enemy, player)),
                            run |-> IF due THEN 1 ELSE trace.run + 1]
               /\ agent' = dec.agent
               /\ state' = outcome
               /\ score' = IF outcome = "win" THEN score + 1 ELSE score
               /\ player' = IF outcome = "playing" THEN move(player) ELSE player
               /\ enemy' = IF outcome = "playing" THEN move(en) ELSE en
               /\ frame' = IF outcome = "playing" THEN frame + 1 ELSE frame

Next ==
    \/ EventsNone
    \/ EventsReset
    \/ EventsQuit
    \/ \E keys \in SUBSET Keys : HandleInput(keys)
    \/ Update

Spec == Init /\ [][Next]_vars

\* run() left alone: the loop keeps passing, no K_r, no QUIT
LiveNext ==
    \/ EventsNone
    \/ \E keys \in SUBSET Keys : HandleInput(keys)
    \/ Update

\* a pass of update() seen from run(): Update is enabled exactly when this
\* action is, and under LiveNext every step of this action is an Update step
UpdateReturns ==
    /\ pc = "update"
    /\ is_over(state) \/ frame < MaxFrame
    /\ pc' = "events"

\* the while True loop of run() never stops between two calls
LiveSpec ==
    /\ Init
    /\ [][LiveNext]_vars
    /\ WF_vars(EventsNone)
    /\ WF_vars(\E keys \in SUBSET Keys : HandleInput(keys))
    /\ WF_pc(UpdateReturns)

\* ------------------------------------------------------------------
\* astar() on its own: one call on arguments drawn from SearchCells
\* ------------------------------------------------------------------
SearchCells ==
    { c \in (0..(Reach - 1)) \X (0..(Reach - 1)) : c[1] + c[2] < Reach /\ in_bounds(c) }

SearchInit ==
    /\ player = ResetPlayer
    /\ enemy = ResetEnemy
    /\ agent = EnemyAgent
    /\ state = "playing"
    /\ score = 0
    /\ frame = 0
    /\ pc = "events"
    /\ prev_heading = NoHeading
    /\ resolved = FALSE
    /\ kept = FALSE
    /\ after_kept = FALSE
    /\ trace = NoTrace
    /\ search \in [start : SearchCells, goal : SearchCells,
                    blocked : { b \in SUBSET SearchCells : Cardinality(b) <= Reach },
                    called : {FALSE}, path : {None}]

CallAstar ==
    /\ ~search.called
    /\ search' = [search EXCEPT !.called = TRUE,
                                !.path = astar(search.start, search.goal, search.blocked)]
    /\ UNCHANGED << player, enemy, agent, state, score, frame, pc, prev_heading,
                    resolved, kept, after_kept, trace >>

SearchNext == CallAstar

SearchSpec == SearchInit /\ [][SearchNext]_vars

\* ------------------------------------------------------------------
\* Properties
\* ------------------------------------------------------------------

\* C1: in every tick taken from Playing the heading decide() returns is one
\* of UP, DOWN, LEFT, RIGHT, and a pursuer that moves in the tick moves to
\* a cell at distance exactly one; also on the tick after a popped plan
\* step failed its safety check and the rest of the plan was kept.
C1_UnitHeading ==
    [][ (pc = "update" /\ state = "playing") =>
          /\ enemy'.direction \in {UP, DOWN, LEFT, RIGHT}
          /\ (enemy'.pos # enemy.pos => heuristic(enemy.pos, enemy'.pos) = 1) ]_vars

\* the pursuer has moved in the tick after a failed plan step whose rest was kept
C1_Witness ==
    /\ pc = "events" /\ resolved /\ after_kept /\ state = "playing"
    /\ enemy.direction \in {UP, DOWN, LEFT, RIGHT}

\* C2: from a terminal state every step except reset() leaves the game
\* state, both positions, both trails, the pursuer's heading, the agent's
\* plan and tick counter, the frame counter and the win count unchanged;
\* the only step that changes the state is reset(), which starts a fresh game.
C2_TerminalAbsorbing ==
    [][ (state \in Terminal) =>
          ( \/ /\ state' = state
             /\ player'.pos = player.pos /\ player'.trail = player.trail
             /\ enemy'.pos = enemy.pos /\ enemy'.trail = enemy.trail
             /\ enemy'.direction = enemy.direction
             /\ agent' = agent /\ frame' = frame /\ score' = score
          \/ /\ pc = "events" /\ pc' = "input"
             /\ state' = "playing" /\ frame' = 0
             /\ player' = ResetPlayer /\ enemy' = ResetEnemy
             /\ agent' = EnemyAgent ) ]_vars

\* update() has just returned early in a terminal state
C2_Witness ==
    /\ state \in Terminal /\ pc = "events" /\ ~resolved /\ agent.ticks > 0

\* C3 (as stated): handle_input in a terminal state leaves the player's
\* heading as it was.
C3_InputNoOp ==
    [][ (pc = "input" /\ state \in Terminal) =>
          player'.direction = player.direction ]_vars

\* C3 (amended): handle_input in a terminal state changes nothing but the
\* player's heading, and it never sets the heading to the reverse of the
\* current one.
C3_InputOnlyTurns ==
    [][ (pc = "input" /\ state \in Terminal) =>
          /\ player'.pos = player.pos /\ player'.trail = player.trail
          /\ player'.alive = player.alive
          /\ player'.direction \in {UP, DOWN, LEFT, RIGHT}
          /\ player'.direction # opposite(player.direction)
          /\ UNCHANGED << enemy, agent, state, score, frame >> ]_vars

\* handle_input has turned the player after a tick that found the game over
C3_Witness ==
    /\ state \in Terminal /\ pc = "update" /\ ~resolved
    /\ player.direction # prev_heading

\* C4: in a tick from Playing, when both next cells are the same cell and
\* that cell is in bounds and in neither trail, the state becomes "lose"
\* and neither entity's position or trail changes.
C4_HeadOnLoses ==
    [][ (pc = "update" /\ state = "playing") =>
          LET p_nxt == Step(player.pos, player.direction)
              e_nxt == Step(enemy.pos, enemy'.direction)
          IN (p_nxt = e_nxt /\ in_bounds(p_nxt)
                /\ p_nxt \notin (player.trail \cup enemy.trail)) =>
                /\ state' = "lose"
                /\ player'.pos = player.pos /\ player'.trail = player.trail
                /\ enemy'.pos = enemy.pos /\ enemy'.trail = enemy.trail ]_vars

\* a tick has just ended in "lose" with both entities aimed at one free cell
C4_Witness ==
    /\ pc = "events" /\ resolved /\ state = "lose"
    /\ Step(player.pos, player.direction) = Step(enemy.pos, enemy.direction)
    /\ in_bounds(Step(player.pos, player.direction))
    /\ Step(player.pos, player.direction) \notin (player.trail \cup enemy.trail)

\* C5: in a tick from Playing, when each entity's next cell is out of
\* bounds or in the pre-move union of the trails, the state becomes "draw",
\* whether or not the two next cells are equal.
C5_MutualCrashDraws ==
    [][ (pc = "update" /\ state = "playing") =>
          LET p_nxt == Step(player.pos, player.direction)
              e_nxt == Step(enemy.pos, enemy'.direction)
              blocked == player.trail \cup enemy.trail
          IN ((~in_bounds(p_nxt) \/ p_nxt \in blocked)
                /\ (~in_bounds(e_nxt) \/ e_nxt \in blocked)) =>
                state' = "draw" ]_vars

\* a tick has just ended in "draw" with both entities aimed at the same cell
C5_Witness ==
    /\ pc = "events" /\ resolved /\ state = "draw"
    /\ Step(player.pos, player.direction) = Step(enemy.pos, enemy.direction)

\* C6: a tick from Playing ends in "win" exactly when the pursuer's next
\* cell is out of bounds or blocked, the player's is in bounds and
\* unblocked, and the two differ; exactly then the score grows by one, and
\* every other tick (a tick in a terminal state too) leaves the score as it was.
C6_WinExactly ==
    [][ pc = "update" =>
          LET p_nxt == Step(player.pos, player.direction)
              e_nxt == Step(enemy.pos, enemy'.direction)
              blocked == player.trail \cup enemy.trail
              wins == /\ state = "playing"
                      /\ ~in_bounds(e_nxt) \/ e_nxt \in blocked
                      /\ in_bounds(p_nxt) /\ p_nxt \notin blocked
                      /\ p_nxt # e_nxt
          IN /\ state = "playing" => ((state' = "win") <=> wins)
             /\ score' = IF wins THEN score + 1 ELSE score ]_vars

\* a tick has just ended in "win": the pursuer was stuck, the player was not
C6_Witness ==
    /\ pc = "events" /\ resolved /\ state = "win" /\ score = 1
    /\ \/ ~in_bounds(Step(enemy.pos, enemy.direction))
       \/ Step(enemy.pos, enemy.direction) \in (player.trail \cup enemy.trail)
    /\ in_bounds(Step(player.pos, player.direction))
    /\ Step(player.pos, player.direction) \notin (player.trail \cup enemy.trail)

\* C7: the win count is cumulative: no step decreases it and reset()
\* (the step taken in the event loop) leaves it unchanged.
C7_ScoreCumulative ==
    [][ score' >= score /\ (pc = "events" => score' = score) ]_vars

\* C8: the player's heading at a tick is never the opposite of the
\* player's heading at the preceding tick of the same game.
C8_NoReverse ==
    (pc = "update" /\ prev_heading # NoHeading) =>
        player.direction # opposite(prev_heading)

\* handle_input has turned the player between two ticks of a running game
C8_Witness ==
    /\ pc = "update" /\ state = "playing" /\ prev_heading # NoHeading
    /\ player.direction # prev_heading

\* C9: over a tick each trail keeps its cells, grows by exactly one cell
\* when its entity moved, and does not grow when the tick ended the game.
C9_TrailMonotone ==
    [][ pc = "update" =>
          /\ player.trail \subseteq player'.trail
          /\ enemy.trail \subseteq enemy'.trail
          /\ Cardinality(player'.trail) =
                Cardinality(player.trail) + (IF player'.pos # player.pos THEN 1 ELSE 0)
          /\ Cardinality(enemy'.trail) =
                Cardinality(enemy.trail) + (IF enemy'.pos # enemy.pos THEN 1 ELSE 0)
          /\ (state' \in Terminal =>
                player'.trail = player.trail /\ enemy'.trail = enemy.trail) ]_vars

\* both entities have moved in every tick so far, one new cell per tick
C9_Witness ==
    /\ pc = "events" /\ resolved /\ state = "playing" /\ frame > 1
    /\ Cardinality(player.trail) = frame + 1
    /\ Cardinality(enemy.trail) = frame + 1

\* C10: each entity's position is in its own trail, in every state.
C10_PosInTrail ==
    player.pos \in player.trail /\ enemy.pos \in enemy.trail

\* both entities are away from their start cells, which are still in the trails
C10_Witness ==
    /\ pc = "events" /\ resolved /\ frame > 0
    /\ player.pos # ResetPlayer.pos /\ ResetPlayer.pos \in player.trail
    /\ enemy.pos # ResetEnemy.pos /\ ResetEnemy.pos \in enemy.trail

\* C11: an entity's alive flag is false in every game-over state that entity
\* reached by crashing: the pursuer's after a win, both after a draw, the
\* player's after a loss in which its next cell was out of bounds or blocked
C11_AliveFalseAfterCrash ==
    /\ (state = "win") => ~enemy.alive
    /\ (state = "draw") => (~player.alive /\ ~enemy.alive)
    /\ (state = "lose" /\ pc = "events" /\ resolved
          /\ crash(next_pos(player, player.direction),
                   player.trail \cup enemy.trail)) => ~player.alive

\* the cells at distance d + 1 from the start, breadth first: the length in
\* steps of a shortest path to goal through in-bounds cells outside blocked,
\* -1 when there is none
RECURSIVE BfsLength(_, _, _, _, _)
BfsLength(frontier, seen, d, goal, blocked) ==
    IF goal \in frontier THEN d
    ELSE IF frontier = {} THEN -1
    ELSE LET nxt == { n \in UNION { { Step(c, DIRS[i]) : i \in 1..4 } : c \in frontier } :
                        in_bounds(n) /\ n \notin blocked /\ n \notin seen }
         IN BfsLength(nxt, seen \cup nxt, d + 1, goal, blocked)

ShortestLength(start, goal, blocked) == BfsLength({start}, {start}, 0, goal, blocked)

\* C12: astar returns a path exactly when some path of in-bounds cells outside
\* blocked (the start excepted) leads from start to goal; the path begins at
\* start, ends at goal, steps between 4-adjacent such cells and has the
\* breadth-first shortest length; start = goal gives the one-cell path
C12_AstarShortest ==
    search.called =>
        LET short == ShortestLength(search.start, search.goal, search.blocked)
            path == search.path
        IN /\ (path = None) <=> (short = -1)
           /\ (path # None) =>
                 /\ path[1] = search.start
                 /\ path[Len(path)] = search.goal
                 /\ \A i \in 2..Len(path) :
                       /\ Abs(path[i][1] - path[i - 1][1])
                            + Abs(path[i][2] - path[i - 1][2]) = 1
                       /\ in_bounds(path[i])
                       /\ path[i] \notin search.blocked
                 /\ Len(path) = short + 1
           /\ (search.start = search.goal) => (path = << search.start >>)

\* a call from a blocked start whose shortest path is longer than the
\* straight distance, and a call with no path
C12_Witness ==
    /\ search.called
    /\ search.start \in search.blocked
    /\ search.path # None
    /\ Len(search.path) > Abs(search.start[1] - search.goal[1])
                           + Abs(search.start[2] - search.goal[2]) + 1

\* the cells reachable from the cells of seen through in-bounds cells
\* outside blocked, seen included; frontier holds the cells of seen whose
\* neighbours have not been looked at
RECURSIVE Reachable(_, _, _)
Reachable(frontier, seen, blocked) ==
    IF frontier = {} THEN seen
    ELSE LET nxt == { n \in UNION { { Step(c, DIRS[i]) : i \in 1..4 } : c \in frontier } :
                        in_bounds(n) /\ n \notin blocked /\ n \notin seen }
         IN Reachable(nxt, seen \cup nxt, blocked)

\* the direction the fallback is to return for pursuer en
SurvivalChoice(en, blocked) ==
    LET order == << UP, DOWN, LEFT, RIGHT >>
        safe == { i \in 1..4 : /\ order[i] # opposite(en.direction)
                               /\ in_bounds(Step(en.pos, order[i]))
                               /\ Step(en.pos, order[i]) \notin blocked }
        count == [ i \in safe |->
                     Cardinality(Reachable({ Step(en.pos, order[i]) },
                                           { Step(en.pos, order[i]) }, blocked)) ]
        best == { i \in safe : \A j \in safe : count[j] <= count[i] }
    IN IF safe = {} THEN en.direction
       ELSE order[CHOOSE i \in best : \A j \in best : i <= j]

\* C13: on a tick decided by the survival fallback the pursuer turns to the
\* direction, other than the reverse of its heading and with an in-bounds
\* unblocked next cell, of greatest reachable-cell count, the first of Up,
\* Down, Left, Right among equals, and keeps its heading when there is none
C13_SurvivalGreatestSpace ==
    [][ (pc = "update" /\ state = "playing") =>
          (trace'.fallback =>
              enemy'.direction = SurvivalChoice(enemy, player.trail \cup enemy.trail)) ]_vars

\* a tick decided by the fallback between two directions of greatest count
C13_Witness ==
    /\ pc = "events" /\ resolved
    /\ trace.fallback /\ trace.tied

\* C14: whatever the state, reset() leaves the fresh game: playing, frame 0,
\* the player on the left-centre start cell heading right and the pursuer on
\* the right-centre start cell heading left, each with its start cell as its
\* whole trail, and an agent with an empty plan and a tick counter of 0
C14_ResetFresh ==
    [][ EventsReset =>
          /\ state' = "playing"
          /\ frame' = 0
          /\ player'.pos = << StartOffset, ROWS \div 2 >>
          /\ player'.direction = << 1, 0 >>
          /\ player'.trail = { << StartOffset, ROWS \div 2 >> }
          /\ enemy'.pos = << COLS - StartOffset, ROWS \div 2 >>
          /\ enemy'.direction = << -1, 0 >>
          /\ enemy'.trail = { << COLS - StartOffset, ROWS \div 2 >> }
          /\ agent'.plan = << >>
          /\ agent'.ticks = 0 ]_vars

\* the fresh game right after a reset() that ended a game in which ticks
\* had been taken
C14_Witness ==
    /\ pc = "input" /\ resolved
    /\ state = "playing" /\ frame = 0
    /\ player.trail = { << StartOffset, ROWS \div 2 >> }
    /\ enemy.trail = { << COLS - StartOffset, ROWS \div 2 >> }
    /\ agent.ticks = 0

\* C15: a tick taken while playing either advances both entities to their
\* next cells, adds 1 to frame and stays playing, which it does exactly when
\* neither entity crashes and the two next cells differ, or leaves both
\* positions, both trails and frame unchanged and ends the game
C15_Lockstep ==
    [][ (pc = "update" /\ state = "playing") =>
          LET blocked == player.trail \cup enemy.trail
              p_nxt == Step(player.pos, player.direction)
              e_nxt == Step(enemy.pos, enemy'.direction)
              free(c) == in_bounds(c) /\ c \notin blocked
          IN IF free(p_nxt) /\ free(e_nxt) /\ p_nxt # e_nxt
             THEN /\ player'.pos = p_nxt /\ enemy'.pos = e_nxt
                  /\ frame' = frame + 1
                  /\ state' = "playing"
             ELSE /\ player'.pos = player.pos /\ player'.trail = player.trail
                  /\ enemy'.pos = enemy.pos /\ enemy'.trail = enemy.trail
                  /\ frame' = frame
                  /\ state' \in {"win", "lose", "draw"} ]_vars

\* a tick on which only the pursuer's next cell was not free: nobody moved
C15_Witness ==
    /\ pc = "events" /\ resolved /\ state = "win"
    /\ frame > 0
    /\ ~crash(Step(player.pos, player.direction), player.trail \cup enemy.trail)
    /\ crash(Step(enemy.pos, enemy.direction), player.trail \cup enemy.trail)

\* C16: a call of decide() runs the re-plan block exactly when the tick
\* counter, just incremented, is a multiple of 3 or the stored plan is empty;
\* so at most 3 calls in a row, the re-planning one included, draw on one plan
C16_ReplanRule ==
    [][ (pc = "update" /\ state = "playing") =>
          /\ agent'.ticks = agent.ticks + 1
          /\ trace'.replanned <=> (agent'.ticks % 3 = 0 \/ agent.plan = << >>)
          /\ ~trace'.replanned => (agent'.plan = Tail(agent.plan))
          /\ trace'.run <= 3 ]_vars

\* the third call in a row on one plan, with steps of it still stored
C16_Witness ==
    /\ pc = "events" /\ resolved
    /\ ~trace.replanned /\ trace.run = 3
    /\ agent.plan # << >>

\* C17: the player's current cell is in the blocked set of every tick, and on
\* a tick whose search to the predicted cell finds no path the search to the
\* player's current cell finds none either: the stored plan is empty and the
\* heading comes from the survival fallback
C17_RetryFindsNothing ==
    [][ (pc = "update" /\ state = "playing") =>
          LET blocked == player.trail \cup enemy.trail
          IN /\ player.pos \in blocked
             /\ trace'.retried =>
                   /\ astar(enemy.pos, player.pos, blocked) = None
                   /\ agent'.plan = << >>
                   /\ trace'.fallback
                   /\ enemy'.direction = _survival_direction(enemy, blocked) ]_vars

\* a tick whose search to the predicted cell found no path
C17_Witness ==
    /\ pc = "events" /\ resolved
    /\ trace.replanned /\ trace.retried
    /\ agent.plan = << >>

\* C18: when a tick ends with the pursuer's next cell out of bounds or
\* blocked, every cardinal direction other than the reverse of the heading
\* the pursuer had before the tick led to an out-of-bounds or blocked cell
C18_CrashOnlyWhenBoxedIn ==
    [][ (pc = "update" /\ state = "playing") =>
          LET blocked == player.trail \cup enemy.trail
              bad(c) == ~in_bounds(c) \/ c \in blocked
              reverse == << -enemy.direction[1], -enemy.direction[2] >>
          IN bad(Step(enemy.pos, enemy'.direction)) =>
                \A d \in { << 0, -1 >>, << 0, 1 >>, << -1, 0 >>, << 1, 0 >> } \ {reverse} :
                   bad(Step(enemy.pos, d)) ]_vars

\* a tick on which the fallback had no direction to offer and the pursuer
\* crashed
C18_Witness ==
    /\ pc = "events" /\ resolved
    /\ state \in {"win", "draw"}
    /\ trace.fallback /\ ~trace.tied
    /\ crash(Step(enemy.pos, enemy.direction), player.trail \cup enemy.trail)

\* C19: no cell is in both trails, and the two entities are never on the
\* same cell
C19_TrailsDisjoint ==
    /\ player.trail \cap enemy.trail = {}
    /\ player.pos # enemy.pos

\* a game in progress in which the player stands next to the pursuer's trail
C19_Witness ==
    /\ pc = "events" /\ resolved /\ state = "playing"
    /\ frame >= 3
    /\ \E i \in 1..4 : Step(player.pos, DIRS[i]) \in enemy.trail

====
